---------------------------- MODULE Spec2Model ----------------------------
(***************************************************************************)
(* Model of the evidence-extraction and frame-ranking pipeline of the      *)
(* inspector package (stacktrace_filter.py, source_utils.py) and of the    *)
(* inspection run that drives it (inspector.py, defects4j_runner.py).      *)
(*                                                                         *)
(* Python strings are modelled as sequences of one-character strings, so   *)
(* that the regular expressions, str.split, str.startswith, str.lower ...  *)
(* are computed character by character as the code computes them.          *)
(* Floating point values are kept as scaled integers:                      *)
(*   FrameScore.score        is kept doubled   (score2 = 2 * score),       *)
(*   ResolvedSource.confidence is kept in hundredths (conf100).            *)
(***************************************************************************)
EXTENDS Integers, Sequences, FiniteSets, TLC

(***************************************************************************)
(* Bounds of the model.                                                    *)
(***************************************************************************)
\* number of lines of a test log
MaxLogLines == 2

\* number of frames of a ranked trace
MaxFrames == 3

\* largest max_candidates
MaxCandidates == 2

\* deepest index_in_trace of a scored frame
MaxTraceDepth == 6

\* number of source roots of an index
MaxRoots == 2

\* number of lines of a short file, and the length of the long one
MaxFileLines == 4

ExampleFileLines == 100

\* largest small window of a snippet
MaxWindow == 2

\* number of lines of a file a routine is looked for in
MaxMethodLines == 3

\* number of trigger tests of an inspection
MaxTargets == 2

(***************************************************************************)
(* Program constants.                                                      *)
(***************************************************************************)
\* extract_code_snippet's default window
DefaultWindow == 8

\* the window of the snippet extract_enclosing_method falls back to
FallbackWindow == 20

\* extract_enclosing_method's default max_scan_up and max_scan_down
DefaultScanUp == 200

DefaultScanDown == 400

\* run_defects4j_inspection's default max_candidates
DefaultMaxCandidates == 8

\* the number of ranked frames that become suspects, and their snippet window
MaxSuspects == 3

SuspectWindow == 8

(***************************************************************************)
(* Characters and the str methods the code uses.                           *)
(***************************************************************************)
UpperSeq ==
  <<"A","B","C","D","E","F","G","H","I","J","K","L","M",
    "N","O","P","Q","R","S","T","U","V","W","X","Y","Z">>

LowerSeq ==
  <<"a","b","c","d","e","f","g","h","i","j","k","l","m",
    "n","o","p","q","r","s","t","u","v","w","x","y","z">>

DigitSeq ==
  <<"0","1","2","3","4","5","6","7","8","9">>

UpperChars == {UpperSeq[i] : i \in 1..26}

LowerChars == {LowerSeq[i] : i \in 1..26}

DigitChars == {DigitSeq[i] : i \in 1..10}

\* str.isspace() / regex \s, on the characters of the model's alphabet
SpaceChars == {" ", "\t", "\n", "\r", "\f"}

IsSpace(c) == c \in SpaceChars

\* regex \w
WordChars == UpperChars \cup LowerChars \cup DigitChars \cup {"_"}

\* regex [\w.$]
ClassChars == WordChars \cup {".", "$"}

\* the characters regex [^:()] excludes
FileStopChars == {":", "(", ")"}

\* the line boundaries of str.splitlines() in the model's alphabet
LineBreakChars == {"\n", "\r", "\f"}

MinOf(S) == CHOOSE x \in S : \A y \in S : x <= y

MaxOf(S) == CHOOSE x \in S : \A y \in S : x >= y

\* the first position >= i of s whose character is not in the class C
\* (Len(s)+1 when there is none): where a greedy [C]* starting at i ends
Span(s, i, C) ==
  LET stop == {j \in i..Len(s) : s[j] \notin C}
  IN  IF stop = {} THEN (IF i > Len(s) THEN i ELSE Len(s) + 1) ELSE MinOf(stop)

\* the same for a negated class [^C]*
SpanNot(s, i, C) ==
  LET stop == {j \in i..Len(s) : s[j] \in C}
  IN  IF stop = {} THEN (IF i > Len(s) THEN i ELSE Len(s) + 1) ELSE MinOf(stop)

\* s[i-1:j-1] for 1-based i, j+1 (empty when i > j)
Slice(s, i, j) == IF i > j THEN <<>> ELSE SubSeq(s, i, j)

\* str.startswith
StartsWith(s, p) == Len(p) <= Len(s) /\ SubSeq(s, 1, Len(p)) = p

\* str.endswith
EndsWith(s, p) == Len(p) <= Len(s) /\ SubSeq(s, Len(s) - Len(p) + 1, Len(s)) = p

\* p in s
Contains(s, p) ==
  \E i \in 1..(Len(s) - Len(p) + 1) : SubSeq(s, i, i + Len(p) - 1) = p

\* str.lower() of one character
LowerChar(c) ==
  IF c \in UpperChars
    THEN LowerSeq[CHOOSE i \in 1..26 : UpperSeq[i] = c]
    ELSE c

\* str.lower()
Lower(s) == [i \in 1..Len(s) |-> LowerChar(s[i])]

\* str.strip()
Strip(s) ==
  LET keep == {i \in 1..Len(s) : ~IsSpace(s[i])}
  IN  IF keep = {} THEN <<>> ELSE SubSeq(s, MinOf(keep), MaxOf(keep))

\* int(d) of one decimal digit
DigitVal(c) == (CHOOSE i \in 1..10 : DigitSeq[i] = c) - 1

\* int(s) for a string of decimal digits
RECURSIVE ParseInt(_)
ParseInt(s) ==
  IF s = <<>> THEN 0
  ELSE 10 * ParseInt(SubSeq(s, 1, Len(s) - 1)) + DigitVal(s[Len(s)])

\* str.splitlines(): the lines of a text, without their line breaks; "\r\n"
\* is one break; no empty last line after a final break
RECURSIVE SplitLinesFrom(_, _)
SplitLinesFrom(s, i) ==
  IF i > Len(s) THEN <<>>
  ELSE LET e == SpanNot(s, i, LineBreakChars)
           n == IF e < Len(s) /\ s[e] = "\r" /\ s[e + 1] = "\n" THEN e + 2 ELSE e + 1
       IN  <<Slice(s, i, e - 1)>> \o SplitLinesFrom(s, n)

SplitLines(s) == SplitLinesFrom(s, 1)

\* "\n".join(lines)
RECURSIVE JoinLines(_)
JoinLines(lines) ==
  IF lines = <<>> THEN <<>>
  ELSE IF Len(lines) = 1 THEN lines[1]
  ELSE lines[1] \o <<"\n">> \o JoinLines(Tail(lines))

(***************************************************************************)
(* String literals.                                                        *)
(***************************************************************************)
\* the string constants of the code
Lit ==
  [dot_java |->
     <<".", "j", "a", "v", "a">>,
   caused_by |->
     <<"C", "a", "u", "s", "e", "d", " ", "b", "y", ":">>,
   Exception |->
     <<"E", "x", "c", "e", "p", "t", "i", "o", "n">>,
   Error |->
     <<"E", "r", "r", "o", "r">>,
   UnknownException |->
     <<"U", "n", "k", "n", "o", "w", "n", "E", "x", "c", "e", "p", "t", "i", "o", "n">>,
   java |->
     <<"j", "a", "v", "a", ".">>,
   javax |->
     <<"j", "a", "v", "a", "x", ".">>,
   sun |->
     <<"s", "u", "n", ".">>,
   jdk |->
     <<"j", "d", "k", ".">>,
   org_junit |->
     <<"o", "r", "g", ".", "j", "u", "n", "i", "t", ".">>,
   junit |->
     <<"j", "u", "n", "i", "t", ".">>,
   dot_test_dot |->
     <<".", "t", "e", "s", "t", ".">>,
   test |->
     <<"t", "e", "s", "t">>,
   tests |->
     <<"t", "e", "s", "t", "s">>,
   dot_junit_dot |->
     <<".", "j", "u", "n", "i", "t", ".">>,
   java_lang_reflect |->
     <<"j", "a", "v", "a", ".", "l", "a", "n", "g", ".", "r", "e", "f", "l", "e", "c", "t", ".">>,
   CGLIB |->
     <<"C", "G", "L", "I", "B">>,
   ByteBuddy |->
     <<"B", "y", "t", "e", "B", "u", "d", "d", "y">>,
   org_springframework |->
     <<"o", "r", "g", ".", "s", "p", "r", "i", "n", "g", "f", "r", "a", "m", "e", "w", "o", "r", "k", ".">>,
   util |->
     <<"u", "t", "i", "l">>,
   utils |->
     <<"u", "t", "i", "l", "s">>,
   utility |->
     <<"u", "t", "i", "l", "i", "t", "y">>,
   helper |->
     <<"h", "e", "l", "p", "e", "r">>,
   common |->
     <<"c", "o", "m", "m", "o", "n">>,
   dollar |->
     <<"$">>,
   IllegalArgumentException |->
     <<"j", "a", "v", "a", ".", "l", "a", "n", "g", ".", "I", "l", "l", "e", "g", "a", "l", "A", "r", "g", "u", "m", "e", "n", "t", "E", "x", "c", "e", "p", "t", "i", "o", "n">>,
   NullPointerException |->
     <<"j", "a", "v", "a", ".", "l", "a", "n", "g", ".", "N", "u", "l", "l", "P", "o", "i", "n", "t", "e", "r", "E", "x", "c", "e", "p", "t", "i", "o", "n">>,
   IndexOutOfBoundsException |->
     <<"j", "a", "v", "a", ".", "l", "a", "n", "g", ".", "I", "n", "d", "e", "x", "O", "u", "t", "O", "f", "B", "o", "u", "n", "d", "s", "E", "x", "c", "e", "p", "t", "i", "o", "n">>,
   ArrayIndexOutOfBoundsException |->
     <<"j", "a", "v", "a", ".", "l", "a", "n", "g", ".", "A", "r", "r", "a", "y", "I", "n", "d", "e", "x", "O", "u", "t", "O", "f", "B", "o", "u", "n", "d", "s", "E", "x", "c", "e", "p", "t", "i", "o", "n">>]

\* lines of test logs; at_... are the frame lines of the ranked traces
Line ==
  [npe |->
     <<"j", "a", "v", "a", ".", "l", "a", "n", "g", ".", "N", "u", "l", "l", "P", "o", "i", "n", "t", "e", "r", "E", "x", "c", "e", "p", "t", "i", "o", "n", ":", " ", "x", " ", "m", "u", "s", "t", " ", "n", "o", "t", " ", "b", "e", " ", "n", "u", "l", "l">>,
   util |->
     <<"\t", "a", "t", " ", "c", "o", "m", ".", "a", "c", "m", "e", ".", "U", "t", "i", "l", ".", "c", "h", "e", "c", "k", "(", "U", "t", "i", "l", ".", "j", "a", "v", "a", ":", "4", "2", ")">>,
   app0 |->
     <<"\t", "a", "t", " ", "c", "o", "m", ".", "a", "c", "m", "e", ".", "A", "p", "p", ".", "r", "u", "n", "(", "A", "p", "p", ".", "j", "a", "v", "a", ":", "0", ")">>,
   kt |->
     <<" ", " ", " ", " ", "a", "t", " ", "c", "o", "m", ".", "a", "c", "m", "e", ".", "A", "p", "p", ".", "r", "u", "n", "(", "A", "p", "p", ".", "k", "t", ":", "7", ")">>,
   unknown |->
     <<"\t", "a", "t", " ", "s", "u", "n", ".", "r", "e", "f", "l", "e", "c", "t", ".", "G", "e", "n", ".", "i", "n", "v", "o", "k", "e", "(", "U", "n", "k", "n", "o", "w", "n", " ", "S", "o", "u", "r", "c", "e", ")">>,
   caused |->
     <<"C", "a", "u", "s", "e", "d", " ", "b", "y", ":", " ", "j", "a", "v", "a", ".", "i", "o", ".", "I", "O", "E", "x", "c", "e", "p", "t", "i", "o", "n">>,
   test |->
     <<" ", " ", "a", "t", " ", "c", "o", "m", ".", "a", "c", "m", "e", ".", "F", "o", "o", "T", "e", "s", "t", ".", "t", "e", "s", "t", "X", "(", "F", "o", "o", "T", "e", "s", "t", ".", "j", "a", "v", "a", ":", "7", ")", " ", " ">>,
   error |->
     <<"E", "r", "r", "o", "r">>,
   junk |->
     <<"T", "e", "s", "t", "s", " ", "r", "u", "n", ":", " ", "1", ",", " ", "F", "a", "i", "l", "u", "r", "e", "s", ":", " ", "1">>,
   afe |->
     <<" ", " ", "j", "u", "n", "i", "t", ".", "f", "r", "a", "m", "e", "w", "o", "r", "k", ".", "A", "s", "s", "e", "r", "t", "i", "o", "n", "F", "a", "i", "l", "e", "d", "E", "r", "r", "o", "r", ":", " ", " ", " ", "e", "x", "p", "e", "c", "t", "e", "d", " ", "1", " ", " ">>,
   at_app |->
     <<"\t", "a", "t", " ", "c", "o", "m", ".", "a", "c", "m", "e", ".", "A", "p", "p", ".", "r", "u", "n", "(", "A", "p", "p", ".", "j", "a", "v", "a", ":", "1", "0", ")">>,
   at_jdk |->
     <<"\t", "a", "t", " ", "j", "a", "v", "a", ".", "u", "t", "i", "l", ".", "L", "i", "s", "t", ".", "g", "e", "t", "(", "L", "i", "s", "t", ".", "j", "a", "v", "a", ":", "5", ")">>,
   at_test |->
     <<"\t", "a", "t", " ", "c", "o", "m", ".", "a", "c", "m", "e", ".", "t", "e", "s", "t", ".", "T", ".", "r", "u", "n", "(", "T", ".", "j", "a", "v", "a", ":", "3", ")">>,
   at_spring |->
     <<"\t", "a", "t", " ", "o", "r", "g", ".", "s", "p", "r", "i", "n", "g", "f", "r", "a", "m", "e", "w", "o", "r", "k", ".", "C", "t", "x", ".", "r", "u", "n", "(", "C", "t", "x", ".", "j", "a", "v", "a", ":", "8", ")">>,
   at_junit |->
     <<"\t", "a", "t", " ", "o", "r", "g", ".", "j", "u", "n", "i", "t", ".", "A", "s", "s", "e", "r", "t", ".", "f", "a", "i", "l", "(", "A", "s", "s", "e", "r", "t", ".", "j", "a", "v", "a", ":", "8", "8", ")">>,
   at_inner |->
     <<"\t", "a", "t", " ", "c", "o", "m", ".", "a", "c", "m", "e", ".", "A", "p", "p", "$", "1", ".", "r", "u", "n", "(", "A", "p", "p", ".", "j", "a", "v", "a", ":", "1", "2", ")">>,
   at_reflect |->
     <<"\t", "a", "t", " ", "j", "a", "v", "a", ".", "l", "a", "n", "g", ".", "r", "e", "f", "l", "e", "c", "t", ".", "M", "e", "t", "h", "o", "d", ".", "i", "n", "v", "o", "k", "e", "(", "M", "e", "t", "h", "o", "d", ".", "j", "a", "v", "a", ":", "4", "9", "8", ")">>]

\* path components and file names
Part ==
  [slash |->
     <<"/">>,
   A |->
     <<"A">>,
   B |->
     <<"B">>,
   pkg1 |->
     <<"p", "k", "g", "1">>,
   pkg2 |->
     <<"p", "k", "g", "2">>,
   Foo_java |->
     <<"F", "o", "o", ".", "j", "a", "v", "a">>,
   Bar_java |->
     <<"B", "a", "r", ".", "j", "a", "v", "a">>,
   Foo_txt |->
     <<"F", "o", "o", ".", "t", "x", "t">>,
   Nope_java |->
     <<"N", "o", "p", "e", ".", "j", "a", "v", "a">>]

\* class names of resolved frames
Cls ==
  [pkg1_Foo |->
     <<"p", "k", "g", "1", ".", "F", "o", "o">>,
   pkg2_Foo |->
     <<"p", "k", "g", "2", ".", "F", "o", "o">>,
   Foo |->
     <<"F", "o", "o">>,
   pkg1_Foo_Inner |->
     <<"p", "k", "g", "1", ".", "F", "o", "o", "$", "I", "n", ".", "n", "e", "r">>,
   pkg2_pkg1_Foo_m |->
     <<"p", "k", "g", "2", ".", "p", "k", "g", "1", ".", "F", "o", "o", ".", "m">>,
   x_Foo |->
     <<"x", ".", "F", "o", "o">>,
   A11_Foo |->
     <<"A", ".", "A", ".", "A", ".", "A", ".", "A", ".", "A", ".", "A", ".", "A", ".", "A", ".", "A", ".", "A", ".", "F", "o", "o">>]
\* the keywords of the declaration patterns
Kw ==
  [public |->
     <<"p", "u", "b", "l", "i", "c">>,
   protected |->
     <<"p", "r", "o", "t", "e", "c", "t", "e", "d">>,
   private |->
     <<"p", "r", "i", "v", "a", "t", "e">>,
   static |->
     <<"s", "t", "a", "t", "i", "c">>,
   final |->
     <<"f", "i", "n", "a", "l">>,
   synchronized |->
     <<"s", "y", "n", "c", "h", "r", "o", "n", "i", "z", "e", "d">>,
   abstract |->
     <<"a", "b", "s", "t", "r", "a", "c", "t">>,
   native |->
     <<"n", "a", "t", "i", "v", "e">>,
   throws |->
     <<"t", "h", "r", "o", "w", "s">>]

\* lines of source files: a declaration with and without its brace, the
\* braces, a statement, a routine on one line
Src ==
  [decl |->
     <<"i", "n", "t", " ", "f", "(", ")", " ", "{">>,
   bare |->
     <<"i", "n", "t", " ", "f", "(", ")">>,
   open |->
     <<"{">>,
   close |->
     <<"}">>,
   stmt |->
     <<"g", "(", ")", ";">>,
   oneline |->
     <<"i", "n", "t", " ", "f", "(", ")", " ", "{", "}", " ", "/", "/", " ", "g", "(", ")">>]

\* the prefix and the separator _is_valid_test_id looks for, and test ids:
\* two valid ones, a block header, one without separator, one with a space
Tid ==
  [header_prefix |->
     <<"-", "-", "-", " ">>,
   separator |->
     <<":", ":">>,
   valid |->
     <<"A", ":", ":", "t">>,
   other |->
     <<"B", ":", ":", "u">>,
   header |->
     <<"-", "-", "-", " ", "A", ":", ":", "t">>,
   nosep |->
     <<"A", ".", "t">>,
   spaced |->
     <<"A", ":", ":", "t", " ", "x">>]

\* what the single-test command prints: a trace into Foo.java, a trace into
\* Bar.java, no trace
Out ==
  [trace |->
     <<"j", "a", "v", "a", ".", "l", "a", "n", "g", ".", "N", "u", "l", "l", "P", "o", "i", "n", "t", "e", "r", "E", "x", "c", "e", "p", "t", "i", "o", "n", ":", " ", "x", "\n", "\t", "a", "t", " ", "p", "k", "g", "1", ".", "F", "o", "o", ".", "m", "(", "F", "o", "o", ".", "j", "a", "v", "a", ":", "2", ")", "\n", "\t", "a", "t", " ", "j", "a", "v", "a", ".", "u", "t", "i", "l", ".", "L", "i", "s", "t", ".", "g", "e", "t", "(", "L", "i", "s", "t", ".", "j", "a", "v", "a", ":", "5", ")">>,
   bar |->
     <<"E", "r", "r", "o", "r", "\n", "\t", "a", "t", " ", "q", ".", "B", "a", "r", ".", "m", "(", "B", "a", "r", ".", "j", "a", "v", "a", ":", "1", ")">>,
   none |->
     <<"T", "e", "s", "t", "s", " ", "r", "u", "n", ":", " ", "1">>]

(***************************************************************************)
(* stacktrace_filter.py: the stack frame parser.                           *)
(***************************************************************************)
NoMatch == [matched |-> FALSE, groups |-> <<>>]

\* STACK_FRAME_RE.match(line):
\*   ^\s*at\s+([\w.$]+)\(([^:()]+):(\d+)\)\s*$
\* Every repeated class is followed by a character outside the class, so the
\* greedy scan below is the only way the expression can match.
STACK_FRAME_RE(line) ==
  LET n  == Len(line)
      a  == Span(line, 1, SpaceChars)            \* ^\s*
      w  == a + 2                             \* at
      c  == Span(line, w, SpaceChars)            \* \s+
      p  == Span(line, c, ClassChars)        \* ([\w.$]+)
      f  == p + 1                             \* \(
      k  == SpanNot(line, f, FileStopChars)         \* ([^:()]+)
      d  == k + 1                             \* :
      r  == Span(line, d, DigitChars)            \* (\d+)
      e  == Span(line, r + 1, SpaceChars)        \* \)\s*$
  IN  IF /\ a + 1 <= n /\ line[a] = "a" /\ line[a + 1] = "t"
         /\ c > w
         /\ p > c /\ p <= n /\ line[p] = "("
         /\ k > f /\ k <= n /\ line[k] = ":"
         /\ r > d /\ r <= n /\ line[r] = ")"
         /\ e = n + 1
        THEN [matched |-> TRUE,
              groups  |-> <<Slice(line, c, p - 1), Slice(line, f, k - 1),
                            Slice(line, d, r - 1)>>]
        ELSE NoMatch

\* EXCEPTION_LINE_RE.match(s), s already stripped by the caller:
\*   ^\s*(?:Caused by:\s*)?([\w.$]+(?:Exception|Error))(?::\s*(.*))?\s*$
\* Group 1 is a run of [\w.$] that must be followed by ':' or by the end of
\* the stripped line, so it is the whole run; it ends in Exception or Error
\* after at least one more character.  Group 2 is <<>> when it did not take
\* part in the match (Python's None, turned into "" by `msg or ""`).
EXCEPTION_LINE_RE(s) ==
  LET n  == Len(s)
      a  == Span(s, 1, SpaceChars)                                 \* ^\s*
      b  == IF StartsWith(Slice(s, a, n), Lit.caused_by)          \* (?:Caused by:\s*)?
              THEN Span(s, a + Len(Lit.caused_by), SpaceChars) ELSE a
      e  == Span(s, b, ClassChars)                             \* [\w.$]+...
      ty == Slice(s, b, e - 1)
      m  == Span(s, e + 1, SpaceChars)                             \* :\s*
  IN  IF /\ \/ (EndsWith(ty, Lit.Exception) /\ Len(ty) > Len(Lit.Exception))
            \/ (EndsWith(ty, Lit.Error) /\ Len(ty) > Len(Lit.Error))
         /\ \/ e <= n /\ s[e] = ":"
            \/ Span(s, e, SpaceChars) = n + 1
        THEN [matched |-> TRUE,
              groups  |-> <<ty, IF e <= n /\ s[e] = ":" THEN Slice(s, m, n) ELSE <<>> >>]
        ELSE NoMatch

StackFrame(cls, file, ln, raw, idx) ==
  [class_name |-> cls, file_name |-> file, line_number |-> ln,
   raw_line |-> raw, index_in_trace |-> idx]

\* ParseLoop with idx counting every line that matches the frame pattern,
\* the surviving and the dropped alike
RECURSIVE ParseLoop_RawIdx(_, _, _)
ParseLoop_RawIdx(lines, frames, idx) ==
  IF lines = <<>> THEN frames
  ELSE LET line == Head(lines)
           m    == STACK_FRAME_RE(line)
       IN  IF ~m.matched
             THEN ParseLoop_RawIdx(Tail(lines), frames, idx)
           ELSE IF ~EndsWith(m.groups[2], Lit.dot_java)
             THEN ParseLoop_RawIdx(Tail(lines), frames, idx + 1)
           ELSE ParseLoop_RawIdx(Tail(lines),
                                 Append(frames,
                                        StackFrame(m.groups[1], m.groups[2],
                                                   ParseInt(m.groups[3]), line, idx)),
                                 idx + 1)

\* the loop of parse_stack_frames over the remaining lines
RECURSIVE ParseLoop(_, _, _)
ParseLoop(lines, frames, idx) ==
  IF lines = <<>> THEN frames
  ELSE LET line == Head(lines)
           m    == STACK_FRAME_RE(line)
       IN  IF ~m.matched
             THEN ParseLoop(Tail(lines), frames, idx)
           ELSE IF ~EndsWith(m.groups[2], Lit.dot_java)
             THEN ParseLoop(Tail(lines), frames, idx)
           ELSE ParseLoop(Tail(lines),
                          Append(frames,
                                 StackFrame(m.groups[1], m.groups[2],
                                            ParseInt(m.groups[3]), line, idx)),
                          idx + 1)

parse_stack_frames(test_log) == ParseLoop(SplitLines(test_log), <<>>, 0)

ExceptionInfo(ty, msg) == [exception_type |-> ty, message |-> msg]

\* ExceptionLoop keeping the last exception-like line instead of the first
RECURSIVE ExceptionLoop_Last(_)
ExceptionLoop_Last(lines) ==
  IF lines = <<>> THEN ExceptionInfo(Lit.UnknownException, <<>>)
  ELSE LET m == EXCEPTION_LINE_RE(Strip(lines[Len(lines)]))
       IN  IF ~m.matched THEN ExceptionLoop_Last(SubSeq(lines, 1, Len(lines) - 1))
           ELSE ExceptionInfo(m.groups[1], Strip(m.groups[2]))

\* the loop of extract_exception_info over the remaining lines
RECURSIVE ExceptionLoop(_)
ExceptionLoop(lines) ==
  IF lines = <<>> THEN ExceptionInfo(Lit.UnknownException, <<>>)
  ELSE LET m == EXCEPTION_LINE_RE(Strip(Head(lines)))
       IN  IF ~m.matched THEN ExceptionLoop(Tail(lines))
           ELSE ExceptionInfo(m.groups[1], Strip(m.groups[2]))

extract_exception_info(test_log) == ExceptionLoop(SplitLines(test_log))

StackTraceEvidence(exc, frames, raw) ==
  [exception |-> exc, frames |-> frames, raw_stack_text |-> raw]

build_evidence_from_log(test_log) ==
  StackTraceEvidence(extract_exception_info(test_log),
                     parse_stack_frames(test_log), test_log)

(***************************************************************************)
(* stacktrace_filter.py: classification, scoring and ranking of frames.    *)
(***************************************************************************)
ARGUMENT_EXCEPTIONS ==
  {Lit.IllegalArgumentException, Lit.NullPointerException,
   Lit.IndexOutOfBoundsException, Lit.ArrayIndexOutOfBoundsException}

is_test_frame(frame) ==
  LET n == Lower(frame.class_name)
  IN  \/ Contains(n, Lit.dot_test_dot)
      \/ EndsWith(n, Lit.test)
      \/ EndsWith(n, Lit.tests)
      \/ Contains(n, Lit.dot_junit_dot)
      \/ StartsWith(n, Lit.org_junit)

\* is_standard_lib without the "java." prefix
is_standard_lib_NoJava(frame) ==
  \E p \in {Lit.javax, Lit.sun, Lit.jdk, Lit.org_junit, Lit.junit} :
    StartsWith(frame.class_name, p)

is_standard_lib(frame) ==
  \E p \in {Lit.java, Lit.javax, Lit.sun, Lit.jdk, Lit.org_junit, Lit.junit} :
    StartsWith(frame.class_name, p)

is_reflection_or_proxy(frame) ==
  LET n == frame.class_name
  IN  \/ StartsWith(n, Lit.java_lang_reflect)
      \/ Contains(n, Lit.CGLIB)
      \/ Contains(n, Lit.ByteBuddy)
      \/ StartsWith(n, Lit.org_springframework)

is_utility_class(frame) ==
  LET name == Lower(frame.class_name)
  IN  \E k \in {Lit.util, Lit.utils, Lit.utility, Lit.helper, Lit.common} : Contains(name, k)

\* one entry of FrameScore.reasons: the tag of the text and, doubled, the
\* weight the text shows
Reason(tag, weight2) == [tag |-> tag, weight2 |-> weight2]

FrameScore(frame, score2, reasons) ==
  [frame |-> frame, score2 |-> score2, reasons |-> reasons]

\* max(0.0, 6.0 - float(frame.index_in_trace)), doubled
early_bonus2(frame) ==
  IF 12 - 2 * frame.index_in_trace > 0 THEN 12 - 2 * frame.index_in_trace ELSE 0

\* one `if` of score_frame: whether its branch is taken, and the Reason the
\* branch appends while it adds the weight to the score
Term(taken, tag, weight2) == [taken |-> taken, reason |-> Reason(tag, weight2)]

RECURSIVE SumWeights(_)
SumWeights(reasons) ==
  IF reasons = <<>> THEN 0
  ELSE reasons[1].weight2 + SumWeights(Tail(reasons))

\* the statements of score_frame in their order; the score is the sum of
\* the weights of the branches taken, the reasons are their texts
Scored(frame, terms) ==
  LET taken   == SelectSeq(terms, LAMBDA t : t.taken)
      reasons == [i \in 1..Len(taken) |-> taken[i].reason]
  IN  FrameScore(frame, SumWeights(reasons), reasons)

\* score_frame with the utility penalty applied whatever the exception type
score_frame_UtilityAlways(frame, exception_type, source_file_exists) ==
  Scored(frame,
    <<Term(early_bonus2(frame) > 0, "early_frame", early_bonus2(frame)),
      Term(source_file_exists, "source_exists", 12),
      Term(~source_file_exists, "source_missing", -4),
      Term(is_standard_lib(frame), "standard_lib", -16),
      Term(is_test_frame(frame), "test_frame", -12),
      Term(is_reflection_or_proxy(frame), "reflection_or_proxy", -4),
      Term(is_utility_class(frame), "utility_and_argument_exception", -6),
      Term(Contains(frame.class_name, Lit.dollar), "inner_class", -1)>>)

score_frame(frame, exception_type, source_file_exists) ==
  Scored(frame,
    <<Term(early_bonus2(frame) > 0, "early_frame", early_bonus2(frame)),
      Term(source_file_exists, "source_exists", 12),
      Term(~source_file_exists, "source_missing", -4),
      Term(is_standard_lib(frame), "standard_lib", -16),
      Term(is_test_frame(frame), "test_frame", -12),
      Term(is_reflection_or_proxy(frame), "reflection_or_proxy", -4),
      Term(is_utility_class(frame) /\ exception_type \in ARGUMENT_EXCEPTIONS,
           "utility_and_argument_exception", -6),
      Term(Contains(frame.class_name, Lit.dollar), "inner_class", -1)>>)

\* the frames the first loop of filter_and_rank_frames keeps
Kept(f) == ~is_standard_lib(f) /\ ~is_test_frame(f)

\* evidence.frames[: max_candidates * 2] (a negative stop counts from the end)
SliceTo(s, stop) ==
  LET e == IF stop >= 0 THEN (IF stop < Len(s) THEN stop ELSE Len(s))
           ELSE (IF Len(s) + stop > 0 THEN Len(s) + stop ELSE 0)
  IN  Slice(s, 1, e)

\* no fallback at all
FallbackFrames_None(frames, max_candidates) == <<>>

\* the frames the fallback loop scores
FallbackFrames(frames, max_candidates) == SliceTo(frames, max_candidates * 2)

\* insertion before the entries of equal score
RECURSIVE SortByScoreDesc_Unstable(_)
SortByScoreDesc_Unstable(scored) ==
  IF scored = <<>> THEN <<>>
  ELSE LET rest == SortByScoreDesc_Unstable(SubSeq(scored, 1, Len(scored) - 1))
           x    == scored[Len(scored)]
           k    == Cardinality({i \in 1..Len(rest) : rest[i].score2 > x.score2})
       IN  SubSeq(rest, 1, k) \o <<x>> \o SubSeq(rest, k + 1, Len(rest))

\* scored.sort(key=lambda s: s.score, reverse=True): descending by score,
\* entries of equal score in their order before the sort
RECURSIVE SortByScoreDesc(_)
SortByScoreDesc(scored) ==
  IF scored = <<>> THEN <<>>
  ELSE LET rest == SortByScoreDesc(SubSeq(scored, 1, Len(scored) - 1))
           x    == scored[Len(scored)]
           k    == Cardinality({i \in 1..Len(rest) : rest[i].score2 >= x.score2})
       IN  SubSeq(rest, 1, k) \o <<x>> \o SubSeq(rest, k + 1, Len(rest))

\* [score_frame(f, exc_type, bool(source_exists_fn(f))) for f in frames];
\* exists is the set of the index_in_trace values whose frame
\* source_exists_fn answers true for
ScoreAll(frames, exc_type, exists) ==
  [i \in 1..Len(frames) |->
     score_frame(frames[i], exc_type, frames[i].index_in_trace \in exists)]

filter_and_rank_frames(ev, exists, max_candidates) ==
  LET exc_type == ev.exception.exception_type
      scored   == ScoreAll(SelectSeq(ev.frames, Kept), exc_type, exists)
      scored2  == IF scored = <<>>
                    THEN ScoreAll(FallbackFrames(ev.frames, max_candidates),
                                  exc_type, exists)
                    ELSE scored
  IN  SliceTo(SortByScoreDesc(scored2), max_candidates)

\* Optional[FrameScore] as a sequence of at most one element
choose_best_frame(rk) == IF rk = <<>> THEN <<>> ELSE <<rk[1]>>

(***************************************************************************)
(* source_utils.py: the source index and the frame resolver.               *)
(*                                                                         *)
(* A path is the sequence of its components (Path.parts, "/" first); the   *)
(* file system is the set of the paths of its files, and a directory       *)
(* exists when a file lies under it.                                       *)
(***************************************************************************)
\* Path.name
Name(p) == p[Len(p)]

\* p lies under the directory root
IsUnder(p, root) == Len(p) > Len(root) /\ SubSeq(p, 1, Len(root)) = root

\* root.exists()
Exists(files, root) == \E p \in files : IsUnder(p, root)

\* the paths root.rglob("*.java") yields, as a set
RGlobJava(files, root) ==
  {p \in files : IsUnder(p, root) /\ EndsWith(Name(p), Lit.dot_java)}

\* the elements of the set S in the order they have in the sequence order
InOrder(S, order) == SelectSeq(order, LAMBDA p : p \in S)

\* dict.get(key, default)
Get(d, key, default) == IF key \in DOMAIN d THEN d[key] ELSE default

\* by_fn.setdefault(p.name, []).append(p) for the paths ps, one after the other
RECURSIVE AppendAll(_, _)
AppendAll(by_fn, ps) ==
  IF ps = <<>> THEN by_fn
  ELSE LET p   == Head(ps)
           old == Get(by_fn, Name(p), <<>>)
       IN  AppendAll([k \in DOMAIN by_fn \cup {Name(p)} |->
                        IF k = Name(p) THEN Append(old, p) ELSE by_fn[k]],
                     Tail(ps))

\* the loop of SourceIndex.build over the remaining roots; order is the
\* order in which the directory enumeration yields the files
RECURSIVE BuildLoop(_, _, _, _)
BuildLoop(by_fn, roots, files, order) ==
  IF roots = <<>> THEN by_fn
  ELSE IF ~Exists(files, Head(roots))
    THEN BuildLoop(by_fn, Tail(roots), files, order)
  ELSE BuildLoop(AppendAll(by_fn, InOrder(RGlobJava(files, Head(roots)), order)),
                 Tail(roots), files, order)

\* the empty dict
EmptyDict == [k \in {} |-> <<>>]

\* SourceIndex.build: the new value of _by_filename
build(roots, files, order) == BuildLoop(EmptyDict, roots, files, order)

\* SourceIndex.candidates_for_filename
candidates_for_filename(by_filename, file_name) == Get(by_filename, file_name, <<>>)

\* str.split(sep) for a one-character separator
RECURSIVE Split(_, _)
Split(s, sep) ==
  LET e == SpanNot(s, 1, {sep})
  IN  IF e > Len(s) THEN <<s>>
      ELSE <<Slice(s, 1, e - 1)>> \o Split(Slice(s, e + 1, Len(s)), sep)

_package_path_tokens(class_name) ==
  LET base  == Split(class_name, "$")[1]
      parts == Split(base, ".")
  IN  IF Len(parts) <= 1 THEN <<>> ELSE SubSeq(parts, 1, Len(parts) - 1)

\* the text of a reason: its tag and the numbers formatted into it
ReasonText(tag, args) == <<tag, args>>

\* confidence is kept in hundredths
ResolvedSource(source_file, conf100, reason) ==
  [source_file |-> source_file, conf100 |-> conf100, reason |-> reason]

\* the inner loop of resolve_source_for_frame: how many package tokens are
\* among the parts of the path
TokenScore(p, pkg_tokens) ==
  Cardinality({i \in 1..Len(pkg_tokens) :
                 \E j \in 1..Len(p) : p[j] = pkg_tokens[i]})

\* BestLoop replacing the best candidate on an equal score too
RECURSIVE BestLoop_LastWins(_, _, _)
BestLoop_LastWins(cands, pkg_tokens, acc) ==
  IF cands = <<>> THEN acc
  ELSE LET p     == Head(cands)
           score == TokenScore(p, pkg_tokens)
       IN  IF score >= acc.best_score
             THEN BestLoop_LastWins(Tail(cands), pkg_tokens,
                                    [best |-> <<p>>, best_score |-> score])
             ELSE BestLoop_LastWins(Tail(cands), pkg_tokens, acc)

\* BestLoop taking a candidate only on a score above zero
RECURSIVE BestLoop_AboveZero(_, _, _)
BestLoop_AboveZero(cands, pkg_tokens, acc) ==
  IF cands = <<>> THEN acc
  ELSE LET p     == Head(cands)
           score == TokenScore(p, pkg_tokens)
       IN  IF score > 0 /\ score > acc.best_score
             THEN BestLoop_AboveZero(Tail(cands), pkg_tokens,
                                     [best |-> <<p>>, best_score |-> score])
             ELSE BestLoop_AboveZero(Tail(cands), pkg_tokens, acc)

\* the loop of resolve_source_for_frame over the remaining candidates;
\* acc.best is <<>> for None
RECURSIVE BestLoop(_, _, _)
BestLoop(cands, pkg_tokens, acc) ==
  IF cands = <<>> THEN acc
  ELSE LET p     == Head(cands)
           score == TokenScore(p, pkg_tokens)
       IN  IF score > acc.best_score
             THEN BestLoop(Tail(cands), pkg_tokens,
                           [best |-> <<p>>, best_score |-> score])
             ELSE BestLoop(Tail(cands), pkg_tokens, acc)

Min2(a, b) == IF a <= b THEN a ELSE b

Max2(a, b) == IF a >= b THEN a ELSE b

\* resolve_source_for_frame without the single-candidate return
resolve_NoUniqueReturn(by_filename, frame_class_name, file_name) ==
  LET cands      == candidates_for_filename(by_filename, file_name)
      pkg_tokens == _package_path_tokens(frame_class_name)
      r          == BestLoop(cands, pkg_tokens, [best |-> <<>>, best_score |-> -1])
  IN  IF cands = <<>> THEN <<>>
      ELSE IF pkg_tokens = <<>>
        THEN <<ResolvedSource(cands[1], 50,
                              ReasonText("multiple_matches_no_package_hint", <<>>))>>
      ELSE <<ResolvedSource(r.best[1], 60 + Min2(30, 3 * r.best_score),
                            ReasonText("package_path_match", <<r.best_score>>))>>

\* resolve_source_for_frame; <<>> is None
resolve_source_for_frame(by_filename, frame_class_name, file_name) ==
  LET cands      == candidates_for_filename(by_filename, file_name)
      pkg_tokens == _package_path_tokens(frame_class_name)
      r          == BestLoop(cands, pkg_tokens, [best |-> <<>>, best_score |-> -1])
  IN  IF cands = <<>> THEN <<>>
      ELSE IF Len(cands) = 1
        THEN <<ResolvedSource(cands[1], 90, ReasonText("unique_filename_match", <<>>))>>
      ELSE IF pkg_tokens = <<>>
        THEN <<ResolvedSource(cands[1], 50,
                              ReasonText("multiple_matches_no_package_hint", <<>>))>>
      ELSE IF r.best = <<>>
        THEN <<ResolvedSource(cands[1], 40, ReasonText("fallback_first_match", <<>>))>>
      ELSE <<ResolvedSource(r.best[1], 60 + Min2(30, 3 * r.best_score),
                            ReasonText("package_path_match", <<r.best_score>>))>>

(***************************************************************************)
(* source_utils.py: the bounded snippet.  A file is the sequence of its    *)
(* lines, source_file.read_text().splitlines().                            *)
(***************************************************************************)
\* str(n) for n >= 0
RECURSIVE Str(_)
Str(n) ==
  IF n < 10 THEN <<DigitSeq[n + 1]>>
  ELSE Str(n \div 10) \o <<DigitSeq[(n % 10) + 1]>>

\* f"{n:5d}": right-aligned in five columns, longer numbers in full
Format5d(n) ==
  LET d == Str(n)
  IN  [i \in 1..Max2(0, 5 - Len(d)) |-> " "] \o d

\* range(start, end) as a sequence
Range(start, end) == [i \in 1..Max2(0, end - start) |-> start + i - 1]

\* whether lines[i] is an index Python accepts (a negative one counts from
\* the end; any other raises IndexError)
IndexOk(lines, i) == -Len(lines) <= i /\ i < Len(lines)

\* lines[i] for a 0-based index i Python accepts
At(lines, i) == IF i >= 0 THEN lines[i + 1] ELSE lines[Len(lines) + i + 1]

\* the start of the snippet without the clip at 0
SnippetStart_Unclipped(line_number, window) == line_number - window - 1

\* start = max(0, line_number - window - 1)
SnippetStart(line_number, window) == Max2(0, line_number - window - 1)

\* end = min(len(lines), line_number + window)
SnippetEnd(lines, line_number, window) == Min2(Len(lines), line_number + window)

\* the indices i at which extract_code_snippet reads lines[i], in order
SnippetIndices(lines, line_number, window) ==
  Range(SnippetStart(line_number, window), SnippetEnd(lines, line_number, window))

\* f"{prefix} {i+1:5d}: {lines[i]}"
SnippetRow(lines, line_number, i) ==
  (IF i + 1 = line_number THEN <<">", ">">> ELSE <<" ", " ">>)
    \o <<" ">> \o Format5d(i + 1) \o <<":", " ">> \o At(lines, i)

\* extract_code_snippet when no lines[i] raises
extract_code_snippet(lines, line_number, window) ==
  LET ix == SnippetIndices(lines, line_number, window)
  IN  JoinLines([k \in 1..Len(ix) |-> SnippetRow(lines, line_number, ix[k])])

(***************************************************************************)
(* source_utils.py: extract_enclosing_method.                              *)
(*                                                                         *)
(* The two declaration patterns backtrack, so they are matched the way an  *)
(* automaton is run: each piece of a pattern maps the set of positions a   *)
(* match may have reached to the set it may reach next (position p is      *)
(* "the next character to read is s[p]"), and the pattern matches when     *)
(* the end of the line is among the positions after its last piece.        *)
(***************************************************************************)
\* regex [C]* from the positions P
Star(s, P, C) ==
  {q \in 1..(Len(s) + 1) : \E p \in P : p <= q /\ \A k \in p..(q - 1) : s[k] \in C}

\* regex [C]+ from the positions P
Plus(s, P, C) ==
  {q \in 1..(Len(s) + 1) : \E p \in P : p < q /\ \A k \in p..(q - 1) : s[k] \in C}

\* regex [^C]* from the positions P
StarNot(s, P, C) ==
  {q \in 1..(Len(s) + 1) : \E p \in P : p <= q /\ \A k \in p..(q - 1) : s[k] \notin C}

\* one character of the class C from the positions P
Char(s, P, C) == {p + 1 : p \in {q \in P : q <= Len(s) /\ s[q] \in C}}

\* the literal w from the positions P
Word(s, P, w) ==
  {p + Len(w) : p \in {q \in P : q + Len(w) - 1 <= Len(s) /\ SubSeq(s, q, q + Len(w) - 1) = w}}

\* regex (public|protected|private) from the positions P
Visibility(s, P) == Word(s, P, Kw.public) \cup Word(s, P, Kw.protected) \cup Word(s, P, Kw.private)

\* regex (w\s+)? from the positions P
OptModifier(s, P, w) == P \cup Plus(s, Word(s, P, w), SpaceChars)

\* regex \([^;]*\)\s* from the positions P
Args(s, P) == Star(s, Char(s, StarNot(s, Char(s, P, {"("}), {";"}), {")"}), SpaceChars)

\* regex \{?\s*$ from the positions P: whether the line can end here
BraceAndEnd(s, P) ==
  (Len(s) + 1) \in Star(s, P \cup Char(s, P, {"{"}), SpaceChars)

\* _METHOD_DECL_RE.match(line)
_METHOD_DECL_RE(line) ==
  LET p1 == Star(line, {1}, SpaceChars)
      p2 == Star(line, p1 \cup Visibility(line, p1), SpaceChars)
      p3 == OptModifier(line, p2, Kw.static)
      p4 == OptModifier(line, p3, Kw.final)
      p5 == OptModifier(line, p4, Kw.synchronized)
      p6 == OptModifier(line, p5, Kw.abstract)
      p7 == Star(line, OptModifier(line, p6, Kw.native), SpaceChars)
      \* ([\w\<\>\[\], ?]+)\s+, the return type
      p8 == Plus(line, Plus(line, p7, WordChars \cup {"<", ">", "[", "]", ",", " ", "?"}),
                 SpaceChars)
      \* ([\w$]+)\s*, the method name
      p9 == Star(line, Plus(line, p8, WordChars \cup {"$"}), SpaceChars)
      p10 == Args(line, p9)
      \* (throws\s+[\w\.,\s]+)?
      p11 == p10 \cup Plus(line, Plus(line, Word(line, p10, Kw.throws), SpaceChars),
                           WordChars \cup {".", ","} \cup SpaceChars)
  IN  BraceAndEnd(line, Star(line, p11, SpaceChars))

\* re.match(r"^\s*(public|protected|private)\s+[\w$]+\s*\([^;]*\)\s*\{?\s*$", line)
constructor_re(line) ==
  LET p1 == Visibility(line, Star(line, {1}, SpaceChars))
      p2 == Star(line, Plus(line, Plus(line, p1, SpaceChars), WordChars \cup {"$"}), SpaceChars)
  IN  BraceAndEnd(line, Args(line, p2))

\* whether the upward scan stops at the line
IsDeclaration(line) == _METHOD_DECL_RE(line) \/ constructor_re(line)

\* target_idx
TargetIdx(lines, line_number) == Max2(0, Min2(Len(lines) - 1, line_number - 1))

\* range(target_idx, max(-1, target_idx - max_scan_up), -1): the indices i
\* the upward scan may read lines[i] at
ScanUp(lines, line_number, max_scan_up) ==
  LET target_idx == TargetIdx(lines, line_number)
      stop == Max2(-1, target_idx - max_scan_up)
  IN  [i \in 1..Max2(0, target_idx - stop) |-> target_idx - i + 1]

\* the upward scan from its k-th index on: [raised, start_idx], start_idx
\* <<>> for None
RECURSIVE FindStart(_, _, _)
FindStart(lines, scan, k) ==
  IF k > Len(scan) THEN [raised |-> FALSE, start_idx |-> <<>>]
  ELSE IF ~IndexOk(lines, scan[k]) THEN [raised |-> TRUE, start_idx |-> <<>>]
  ELSE IF IsDeclaration(At(lines, scan[k])) THEN [raised |-> FALSE, start_idx |-> <<scan[k]>>]
  ELSE FindStart(lines, scan, k + 1)

\* line.count(ch)
Count(line, ch) == Cardinality({i \in 1..Len(line) : line[i] = ch})

\* the downward scan from index j on: the end_idx it leaves
RECURSIVE FindEnd(_, _, _, _, _, _, _)
FindEnd(lines, start_idx, stop, j, brace_balance, opened, end_idx) ==
  IF j >= stop THEN end_idx
  ELSE LET balance == brace_balance + Count(lines[j + 1], "{") - Count(lines[j + 1], "}")
           open == opened \/ Count(lines[j + 1], "{") > 0
       IN  IF open /\ balance <= 0 /\ j > start_idx THEN j
           ELSE FindEnd(lines, start_idx, stop, j + 1, balance, open, j)

\* one line of the rendered block
BlockRow(lines, target_idx, k) ==
  (IF k = target_idx THEN <<">", ">">> ELSE <<" ", " ">>)
    \o <<" ">> \o Format5d(k + 1) \o <<":", " ">> \o lines[k + 1]

\* extract_enclosing_method(source_file, line_number, max_scan_up,
\* max_scan_down): [raised, start_idx, end_idx, text]
extract_enclosing_method(lines, line_number, max_scan_up, max_scan_down) ==
  LET target_idx == TargetIdx(lines, line_number)
      found == FindStart(lines, ScanUp(lines, line_number, max_scan_up), 1)
  IN  IF found.raised
        THEN [raised |-> TRUE, start_idx |-> <<>>, end_idx |-> <<>>, text |-> <<>>]
      ELSE IF found.start_idx = <<>>
        THEN [raised |-> FALSE, start_idx |-> <<>>, end_idx |-> <<>>,
              text |-> extract_code_snippet(lines, line_number, FallbackWindow)]
      ELSE LET start_idx == found.start_idx[1]
               end_idx == FindEnd(lines, start_idx, Min2(Len(lines), start_idx + max_scan_down),
                                  start_idx, 0, FALSE, start_idx)
           IN  [raised |-> FALSE, start_idx |-> <<start_idx>>, end_idx |-> <<end_idx>>,
                text |-> JoinLines([i \in 1..(end_idx - start_idx + 1) |->
                                      BlockRow(lines, target_idx, start_idx + i - 1)])]

(***************************************************************************)
(* inspector.py: run_defects4j_inspection.                                 *)
(***************************************************************************)
\* _is_valid_test_id without the whitespace test
_is_valid_test_id_NoSpaceTest(test_id) ==
  ~StartsWith(test_id, Tid.header_prefix) /\ Contains(test_id, Tid.separator)

_is_valid_test_id(test_id) ==
  IF StartsWith(test_id, Tid.header_prefix) THEN FALSE
  ELSE IF ~Contains(test_id, Tid.separator) THEN FALSE
  ELSE ~\E k \in 1..Len(test_id) : IsSpace(test_id[k])

_has_exception_or_stacktrace(log_text) ==
  LET ev == build_evidence_from_log(log_text)
  IN  IF ev.exception.exception_type # Lit.UnknownException THEN TRUE
      ELSE ev.frames # <<>>

\* inspection_targets[: max(0, inspect_failing_tests)]
InspectionTargets(triggers, failing, n) ==
  SliceTo(IF triggers # <<>> THEN triggers ELSE failing, Max2(0, n))

\* the list candidates_for_filename hands to its caller, sharing the
\* index's own list instead of copying it
CandidateList_Shared(by_fn, file_name) ==
  [items |-> candidates_for_filename(by_fn, file_name), shared |-> TRUE]

\* list(self._by_filename.get(file_name, [])): the list handed to the caller
\* is a new object, not the one the index holds
CandidateList(by_fn, file_name) ==
  [items |-> candidates_for_filename(by_fn, file_name), shared |-> FALSE]

\* source_file.read_text().splitlines() for the files of the model: a
\* routine of three lines, an empty file, a single statement
SourceText(p) ==
  IF p = <<Part.slash, Part.A, Part.pkg1, Part.Foo_java>> THEN <<Src.decl, Src.stmt, Src.close>>
  ELSE IF p = <<Part.slash, Part.B, Part.Bar_java>> THEN <<>>
  ELSE <<Src.stmt>>

\* the record appended for a target that is no valid test id
InvalidFailure(t) ==
  [failing_test |-> t, inspector_error |-> t, ranked_candidates |-> <<>>,
   selected_frame |-> <<>>, suspects |-> <<>>]

\* source_exists_fn over the frames of an evidence: the index_in_trace of
\* the frames it answers true for (every indexed file exists)
SourceExists(by_fn, frames) ==
  {frames[k].index_in_trace : k \in {j \in 1..Len(frames) :
     resolve_source_for_frame(by_fn, frames[j].class_name, frames[j].file_name) # <<>>}}

\* one pass of the suspects loop: <<>> when the frame does not resolve, else
\* the suspect, or raised when extract_enclosing_method raises
Suspect(by_fn, s) ==
  LET res == resolve_source_for_frame(by_fn, s.frame.class_name, s.frame.file_name)
      lines == SourceText(res[1].source_file)
      method_ctx == extract_enclosing_method(lines, s.frame.line_number,
                                             DefaultScanUp, DefaultScanDown)
  IN  IF res = <<>> THEN <<>>
      ELSE <<[raised |-> method_ctx.raised,
              class_name |-> s.frame.class_name,
              file_name |-> s.frame.file_name,
              line_number |-> s.frame.line_number,
              source_file |-> res[1].source_file,
              resolve_confidence |-> res[1].conf100,
              resolve_reason |-> res[1].reason,
              score |-> s.score2,
              score_reasons |-> s.reasons,
              snippet |-> extract_code_snippet(lines, s.frame.line_number, SuspectWindow),
              enclosing_method |-> method_ctx.text]>>

\* the log the evidence is taken from: what test_single printed, or the
\* target's block of the failing_tests file when that is blank or holds
\* neither an exception nor a frame
RawLog(single, blocks, t) ==
  LET printed == single.stdout \o <<"\n">> \o single.stderr
  IN  IF (Strip(printed) = <<>> \/ ~_has_exception_or_stacktrace(printed))
           /\ t \in DOMAIN blocks
        THEN [text |-> blocks[t], evidence_source |-> "failing_tests_file_block"]
        ELSE [text |-> printed, evidence_source |-> "single_test_run"]

\* the frames filter_and_rank_frames calls source_exists_fn for
ScoredFrames(ev, max_cand) ==
  LET kept == SelectSeq(ev.frames, Kept)
  IN  IF kept = <<>> THEN FallbackFrames(ev.frames, max_cand) ELSE kept

\* the suspects loop over ranked[: min(len(ranked), 3)]
Suspects(by_fn, rk) ==
  SelectSeq([k \in 1..Min2(Len(rk), MaxSuspects) |-> Suspect(by_fn, rk[k])],
            LAMBDA s : s # <<>>)

\* the record appended for a valid target.  It leaves out raw_log_artifact
\* and evidence_excerpt, and keeps source_file as the path it was indexed at.
DetailedFailure(t, raw, ev, rk, suspects) ==
  [failing_test |-> t,
   exception_type |-> ev.exception.exception_type,
   exception_message |-> ev.exception.message,
   evidence_source |-> raw.evidence_source,
   ranked_candidates |-> rk,
   selected_frame |-> choose_best_frame(rk),
   suspects |-> [k \in 1..Len(suspects) |-> suspects[k][1]]]

(***************************************************************************)
(* The inputs of the model.                                                *)
(***************************************************************************)
\* the lines the logs of SpecParse are made of
LogCorpus ==
  <<Line.npe, Line.util, Line.app0, Line.kt, Line.unknown, Line.caused, Line.test, Line.error,
    Line.junk, Line.afe, <<>> >>

\* the sequences of at most n indices into a corpus of c lines
LineSeqs(c, n) == UNION {[1..k -> 1..c] : k \in 0..n}

LogOf(corpus, ix) == JoinLines([i \in 1..Len(ix) |-> corpus[ix[i]]])

Logs == {LogOf(LogCorpus, ix) : ix \in LineSeqs(Len(LogCorpus), MaxLogLines)}

\* the frame lines the traces of SpecRank are made of: a project frame, a
\* utility frame, a standard-library frame, a test frame, a proxy frame
RankCorpus == <<Line.at_app, Line.util, Line.at_jdk, Line.at_test, Line.at_spring>>

\* the first line of a trace: an argument exception or another one
ExceptionLines == {Line.npe, Line.caused}

\* an exception line followed by at most MaxFrames frame lines
RankLogs ==
  {JoinLines(<<x>> \o [i \in 1..Len(ix) |-> RankCorpus[ix[i]]]) :
     x \in ExceptionLines, ix \in LineSeqs(Len(RankCorpus), MaxFrames)}

\* the frame lines of SpecScore
ScoreCorpus ==
  {Line.at_app, Line.util, Line.at_jdk, Line.at_test, Line.at_spring, Line.at_junit, Line.at_inner, Line.at_reflect}

\* the trace of a recursion: the same frame line MaxTraceDepth + 1 times
ScoreLogs ==
  {JoinLines(<<x>> \o [i \in 1..(MaxTraceDepth + 1) |-> f]) :
     x \in ExceptionLines, f \in ScoreCorpus}

\* the files of the model's file system: Foo.java three times, twice under
\* /A and once under /B, another source file and a file that is no source
FileUniverse ==
  {<<Part.slash, Part.A, Part.pkg1, Part.Foo_java>>,
   <<Part.slash, Part.A, Part.pkg2, Part.Foo_java>>,
   <<Part.slash, Part.B, Part.pkg2, Part.Foo_java>>,
   <<Part.slash, Part.B, Part.Bar_java>>,
   <<Part.slash, Part.A, Part.pkg1, Part.Foo_txt>>}

\* the directories a source root may name: two roots and a directory inside
\* the first one; each exists only in the file systems with a file under it
RootDirs ==
  {<<Part.slash, Part.A>>, <<Part.slash, Part.B>>, <<Part.slash, Part.A, Part.pkg1>>}

\* the lists of at most MaxRoots roots
RootLists == UNION {[1..k -> RootDirs] : k \in 0..MaxRoots}

\* the orders a directory enumeration may yield the files in
RECURSIVE Orders(_)
Orders(S) ==
  IF S = {} THEN {<<>>}
  ELSE UNION {{<<p>> \o o : o \in Orders(S \ {p})} : p \in S}

\* the class names and file names a frame is resolved for
QueryClasses ==
  {Cls.pkg1_Foo, Cls.pkg2_Foo, Cls.Foo, Cls.pkg1_Foo_Inner, Cls.pkg2_pkg1_Foo_m, Cls.x_Foo,
   Cls.A11_Foo}

QueryFiles == {Part.Foo_java, Part.Bar_java, Part.Nope_java}

\* a file of n lines, each line its own number in a comment
NumberedFile(n) == [i \in 1..n |-> <<"/", "/">> \o Str(i)]

\* the files a snippet is taken from: short ones and one of 100 lines
SnippetFiles ==
  {NumberedFile(n) : n \in 0..MaxFileLines} \cup {NumberedFile(ExampleFileLines)}

\* the line numbers: inside the file, at its ends, and beyond its end
SnippetLineNumbers == 0..(MaxFileLines + MaxWindow + 2)

\* the windows: small ones and the default
SnippetWindows == (0..MaxWindow) \cup {DefaultWindow}

(***************************************************************************)
(* State.                                                                  *)
(***************************************************************************)
VARIABLES
  pc,              \* the step the modelled call sequence is at
  test_log,        \* the text handed to build_evidence_from_log
  evidence,        \* the StackTraceEvidence it returned
  existing,        \* source_exists_fn: the index_in_trace values it accepts
  max_candidates,  \* the max_candidates argument
  ranked,          \* the list filter_and_rank_frames returned
  best,            \* what choose_best_frame returned (<<>> is None)
  scores,          \* the results of score_frame, frame after frame
  files,           \* the file system: the paths of its files
  src_roots,       \* SourceIndex.src_roots
  by_filename,     \* SourceIndex._by_filename
  query,           \* the last resolve_source_for_frame: its arguments, and whether
                   \* build() had run (<<>> before the first call)
  resolved,        \* what it returned (<<>> is None)
  source_file,     \* the lines of the file a snippet is taken from
  line_number,     \* the line_number argument of extract_code_snippet
  window,          \* its window argument
  accessed,        \* the indices i it read lines[i] at
  snippet,         \* the text it returned
  max_scan_up,     \* the max_scan_up argument of extract_enclosing_method
  max_scan_down,   \* its max_scan_down argument
  enclosing,       \* what it did: whether it raised, the start_idx and end_idx it
                   \* found (<<>> is None) and the text it returned
  inspect_failing_tests, \* the argument of run_defects4j_inspection
  trigger_tests,   \* what parse_tests_trigger returned
  failing_ids,     \* failing_ids and failing_blocks, as read_failing_tests_blocked
  failing_blocks,  \* returned them
  target_i,        \* the number of passes of the loop over the targets so far
  detailed_failures, \* the list of that name
  single_calls,    \* the calls of test_single: the test id and how the command ended
  artifacts,       \* the single_test_<i> files written: i, stdout, stderr
  builds,          \* the number of calls of index.build()
  lookups,         \* the number of calls of candidates_for_filename by the run
  returned         \* a list candidates_for_filename returned to some other caller
                   \* (<<>> when there is none): its items and whether the caller
                   \* has modified it

parseVars == <<test_log, evidence>>

rankVars == <<existing, max_candidates, ranked, best, scores>>

resolveVars == <<files, src_roots, by_filename, query, resolved>>

snippetVars == <<source_file, line_number, window, accessed, snippet>>

methodVars == <<max_scan_up, max_scan_down, enclosing>>

inspectVars ==
  <<inspect_failing_tests, trigger_tests, failing_ids, failing_blocks, target_i,
    detailed_failures, single_calls, artifacts, builds, lookups, returned>>

sourceVars == <<resolveVars, snippetVars>>

traceVars == <<parseVars, rankVars>>

vars == <<pc, parseVars, rankVars, resolveVars, snippetVars, methodVars, inspectVars>>

NoEvidence == StackTraceEvidence(ExceptionInfo(<<>>, <<>>), <<>>, <<>>)

ParseIdle == test_log = <<>> /\ evidence = NoEvidence

RankIdle ==
  /\ existing = {}
  /\ max_candidates = 0
  /\ ranked = <<>>
  /\ best = <<>>
  /\ scores = <<>>

ResolveIdle ==
  /\ files = {}
  /\ src_roots = <<>>
  /\ by_filename = EmptyDict
  /\ query = <<>>
  /\ resolved = <<>>

SnippetIdle ==
  /\ source_file = <<>>
  /\ line_number = 0
  /\ window = 0
  /\ accessed = <<>>
  /\ snippet = <<>>

NoEnclosing == [raised |-> FALSE, start_idx |-> <<>>, end_idx |-> <<>>, text |-> <<>>]

MethodIdle ==
  /\ max_scan_up = 0
  /\ max_scan_down = 0
  /\ enclosing = NoEnclosing

InspectIdle ==
  /\ inspect_failing_tests = 0
  /\ trigger_tests = <<>>
  /\ failing_ids = <<>>
  /\ failing_blocks = EmptyDict
  /\ target_i = 0
  /\ detailed_failures = <<>>
  /\ single_calls = <<>>
  /\ artifacts = <<>>
  /\ builds = 0
  /\ lookups = 0
  /\ returned = <<>>

(***************************************************************************)
(* SpecParse: evidence_from_log applied to a log.                          *)
(***************************************************************************)
InitParse ==
  /\ pc = "log"
  /\ test_log \in Logs
  /\ evidence = NoEvidence
  /\ RankIdle
  /\ ResolveIdle
  /\ SnippetIdle
  /\ MethodIdle
  /\ InspectIdle

BuildEvidence ==
  /\ pc = "log"
  /\ evidence' = build_evidence_from_log(test_log)
  /\ pc' = "evidence"
  /\ UNCHANGED <<test_log, rankVars, sourceVars, methodVars, inspectVars>>

NextParse == BuildEvidence

SpecParse == InitParse /\ [][NextParse]_vars

(***************************************************************************)
(* SpecRank: rank_frames and best_frame applied to a parsed evidence, an   *)
(* existence predicate and a max_candidates.                               *)
(***************************************************************************)
InitRank ==
  /\ pc = "evidence"
  /\ test_log \in RankLogs
  /\ evidence = build_evidence_from_log(test_log)
  /\ existing \in SUBSET {evidence.frames[i].index_in_trace : i \in 1..Len(evidence.frames)}
  /\ max_candidates \in 0..MaxCandidates
  /\ ranked = <<>>
  /\ best = <<>>
  /\ scores = <<>>
  /\ ResolveIdle
  /\ SnippetIdle
  /\ MethodIdle
  /\ InspectIdle

FilterAndRank ==
  /\ pc = "evidence"
  /\ ranked' = filter_and_rank_frames(evidence, existing, max_candidates)
  /\ pc' = "ranked"
  /\ UNCHANGED <<parseVars, existing, max_candidates, best, scores, sourceVars, methodVars, inspectVars>>

ChooseBest ==
  /\ pc = "ranked"
  /\ best' = choose_best_frame(ranked)
  /\ pc' = "chosen"
  /\ UNCHANGED <<parseVars, existing, max_candidates, ranked, scores, sourceVars, methodVars, inspectVars>>

NextRank == FilterAndRank \/ ChooseBest

SpecRank == InitRank /\ [][NextRank]_vars

(***************************************************************************)
(* SpecScore: score_frame applied to the frames of a recursion's trace,    *)
(* which differ in index_in_trace only.                                    *)
(***************************************************************************)
InitScore ==
  /\ pc = "score"
  /\ test_log \in ScoreLogs
  /\ evidence = build_evidence_from_log(test_log)
  /\ existing \in {{}, 0..MaxTraceDepth}
  /\ max_candidates = 0
  /\ ranked = <<>>
  /\ best = <<>>
  /\ scores = <<>>
  /\ ResolveIdle
  /\ SnippetIdle
  /\ MethodIdle
  /\ InspectIdle

ScoreFrame ==
  /\ pc = "score"
  /\ Len(scores) < Len(evidence.frames)
  /\ LET f == evidence.frames[Len(scores) + 1]
     IN  scores' = Append(scores,
                          score_frame(f, evidence.exception.exception_type,
                                      f.index_in_trace \in existing))
  /\ UNCHANGED <<pc, parseVars, existing, max_candidates, ranked, best, sourceVars, methodVars, inspectVars>>

NextScore == ScoreFrame

SpecScore == InitScore /\ [][NextScore]_vars

(***************************************************************************)
(* SpecResolve: a SourceIndex over a list of roots of a file system, its   *)
(* build(), and resolve_source applied to class and file names.            *)
(***************************************************************************)
InitResolve ==
  /\ pc = "new"
  /\ files \in SUBSET FileUniverse
  /\ src_roots \in RootLists
  /\ by_filename = EmptyDict
  /\ query = <<>>
  /\ resolved = <<>>
  /\ ParseIdle
  /\ RankIdle
  /\ SnippetIdle
  /\ MethodIdle
  /\ InspectIdle

\* index.build(), the directory enumeration yielding the files in some order
Build ==
  /\ pc = "new"
  /\ \E order \in Orders(files) : by_filename' = build(src_roots, files, order)
  /\ pc' = "built"
  /\ UNCHANGED <<files, src_roots, query, resolved, traceVars, snippetVars, methodVars, inspectVars>>

\* resolve_source_for_frame(index, class_name, file_name)
Resolve ==
  /\ pc \in {"new", "built"}
  /\ \E c \in QueryClasses, f \in QueryFiles :
       /\ query' = <<[class_name |-> c, file_name |-> f, built |-> pc = "built"]>>
       /\ resolved' = resolve_source_for_frame(by_filename, c, f)
  /\ UNCHANGED <<pc, files, src_roots, by_filename, traceVars, snippetVars, methodVars, inspectVars>>

NextResolve == Build \/ Resolve

SpecResolve == InitResolve /\ [][NextResolve]_vars

(***************************************************************************)
(* SpecSnippet: snippet applied to a file, a line number and a window.     *)
(***************************************************************************)
InitSnippet ==
  /\ pc = "file"
  /\ source_file \in SnippetFiles
  /\ line_number \in SnippetLineNumbers
  /\ window \in SnippetWindows
  /\ accessed = <<>>
  /\ snippet = <<>>
  /\ ParseIdle
  /\ RankIdle
  /\ ResolveIdle
  /\ MethodIdle
  /\ InspectIdle

\* extract_code_snippet(source_file, line_number, window): it returns the
\* text, or a lines[i] raises IndexError
ExtractCodeSnippet ==
  /\ pc = "file"
  /\ accessed' = SnippetIndices(source_file, line_number, window)
  /\ IF \A k \in 1..Len(accessed') : IndexOk(source_file, accessed'[k])
       THEN /\ snippet' = extract_code_snippet(source_file, line_number, window)
            /\ pc' = "snippet"
       ELSE /\ snippet' = <<>>
            /\ pc' = "IndexError"
  /\ UNCHANGED <<source_file, line_number, window, traceVars, resolveVars, methodVars, inspectVars>>

NextSnippet == ExtractCodeSnippet

SpecSnippet == InitSnippet /\ [][NextSnippet]_vars

(***************************************************************************)
(* SpecMethod: enclosing_routine applied to a file, a line number and the  *)
(* two scan bounds.                                                        *)
(***************************************************************************)
InitMethod ==
  /\ pc = "file"
  \* every file of at most MaxMethodLines lines, the empty file among them
  /\ LET corpus == <<Src.decl, Src.bare, Src.open, Src.close, Src.stmt, Src.oneline>>
     IN  source_file \in {[i \in 1..Len(ix) |-> corpus[ix[i]]] :
                            ix \in LineSeqs(Len(corpus), MaxMethodLines)}
  \* a line number inside the file, at its ends, or beyond its end
  /\ line_number \in 0..(MaxMethodLines + 1)
  \* scan bounds that a short file reaches, and the defaults
  /\ max_scan_up \in {1, 2, DefaultScanUp}
  /\ max_scan_down \in {1, 2, DefaultScanDown}
  /\ enclosing = NoEnclosing
  /\ window = 0
  /\ accessed = <<>>
  /\ snippet = <<>>
  /\ ParseIdle
  /\ RankIdle
  /\ ResolveIdle
  /\ InspectIdle

\* extract_enclosing_method(source_file, line_number, max_scan_up,
\* max_scan_down): it returns the text, or a lines[i] raises IndexError
ExtractEnclosingMethod ==
  /\ pc = "file"
  /\ enclosing' = extract_enclosing_method(source_file, line_number, max_scan_up, max_scan_down)
  /\ pc' = IF enclosing'.raised THEN "IndexError" ELSE "method"
  /\ UNCHANGED <<max_scan_up, max_scan_down, traceVars, resolveVars, snippetVars, inspectVars>>

NextMethod == ExtractEnclosingMethod

SpecMethod == InitMethod /\ [][NextMethod]_vars

(***************************************************************************)
(* SpecInspect: one run of run_defects4j_inspection from the construction  *)
(* of the index on, with some other holder of the index looking a file     *)
(* name up and modifying the list it got.                                  *)
(***************************************************************************)
\* the ways test_single may end: the command runs out of time, or it exits
\* 0 or 1 having printed a trace, no trace, or nothing
SingleOutcomes ==
  {[timeout |-> TRUE, returncode |-> 0, stdout |-> <<>>, stderr |-> <<>>],
   [timeout |-> FALSE, returncode |-> 0, stdout |-> Out.trace, stderr |-> <<>>],
   [timeout |-> FALSE, returncode |-> 1, stdout |-> <<>>, stderr |-> Out.bar],
   [timeout |-> FALSE, returncode |-> 1, stdout |-> <<>>, stderr |-> <<>>],
   [timeout |-> FALSE, returncode |-> 0, stdout |-> Out.none, stderr |-> <<>>]}

InitInspect ==
  /\ pc = "start"
  /\ files \in {{},
                {<<Part.slash, Part.A, Part.pkg1, Part.Foo_java>>},
                {<<Part.slash, Part.A, Part.pkg1, Part.Foo_java>>,
                 <<Part.slash, Part.A, Part.pkg2, Part.Foo_java>>},
                {<<Part.slash, Part.A, Part.pkg1, Part.Foo_java>>,
                 <<Part.slash, Part.B, Part.Bar_java>>}}
  /\ src_roots = <<<<Part.slash, Part.A>>, <<Part.slash, Part.B>> >>
  /\ by_filename = EmptyDict
  /\ query = <<>>
  /\ resolved = <<>>
  /\ inspect_failing_tests \in (-1)..MaxTargets
  /\ max_candidates = DefaultMaxCandidates
  /\ existing = {}
  /\ ranked = <<>>
  /\ best = <<>>
  /\ scores = <<>>
  /\ trigger_tests = <<>>
  /\ failing_ids = <<>>
  /\ failing_blocks = EmptyDict
  /\ target_i = 0
  /\ detailed_failures = <<>>
  /\ single_calls = <<>>
  /\ artifacts = <<>>
  /\ builds = 0
  /\ lookups = 0
  /\ returned = <<>>
  /\ ParseIdle
  /\ SnippetIdle
  /\ MethodIdle

\* index = SourceIndex(src_roots); index.build()
BuildIndex ==
  /\ pc = "start"
  /\ \E order \in Orders(files) : by_filename' = build(src_roots, files, order)
  /\ builds' = builds + 1
  /\ pc' = "indexed"
  /\ UNCHANGED <<files, src_roots, query, resolved, traceVars, snippetVars, methodVars,
                 inspect_failing_tests, trigger_tests, failing_ids, failing_blocks,
                 target_i, detailed_failures, single_calls, artifacts, lookups, returned>>

\* compile, test, read_failing_tests_blocked and the export of tests.trigger:
\* one of the commands runs out of time and run_cmd raises, or they leave
\* the trigger tests, the failing ids and the failing blocks
RunTests ==
  /\ pc = "indexed"
  /\ \E timed_out \in BOOLEAN :
       IF timed_out
         THEN /\ pc' = "TimeoutExpired"
              /\ UNCHANGED <<trigger_tests, failing_ids, failing_blocks>>
         ELSE /\ pc' = "loop"
              /\ trigger_tests' \in
                   UNION {[1..k -> {Tid.valid, Tid.header, Tid.nosep, Tid.spaced}] :
                            k \in 0..MaxTargets}
              \* the failing ids matter when there is no trigger test: then
              \* there is one failing id, or none either
              /\ failing_ids' \in
                   IF trigger_tests' = <<>> THEN {<<>>, <<Tid.other>>} ELSE {<<Tid.other>>}
              /\ failing_blocks' \in {EmptyDict, [t \in {Tid.valid} |-> Out.trace]}
  /\ UNCHANGED <<resolveVars, traceVars, snippetVars, methodVars, inspect_failing_tests,
                 target_i, detailed_failures, single_calls, artifacts, builds, lookups,
                 returned>>

\* one pass of the loop over inspection_targets[: max(0, inspect_failing_tests)];
\* each value of the pass is computed once, bound by \E over a one-element set
InspectTarget ==
  /\ pc = "loop"
  /\ target_i < Len(InspectionTargets(trigger_tests, failing_ids, inspect_failing_tests))
  /\ LET t == InspectionTargets(trigger_tests, failing_ids, inspect_failing_tests)[target_i + 1]
     IN  IF ~_is_valid_test_id(t)
           THEN /\ artifacts' = Append(artifacts, [i |-> target_i, stdout |-> <<>>, stderr |-> <<>>])
                /\ detailed_failures' = Append(detailed_failures, InvalidFailure(t))
                /\ target_i' = target_i + 1
                /\ UNCHANGED <<pc, single_calls, lookups>>
           ELSE \E single \in SingleOutcomes :
                  /\ single_calls' =
                       Append(single_calls, [test_id |-> t, timeout |-> single.timeout,
                                             returncode |-> single.returncode])
                  /\ IF single.timeout
                       THEN /\ pc' = "TimeoutExpired"
                            /\ UNCHANGED <<artifacts, detailed_failures, target_i, lookups>>
                       ELSE \E raw \in {RawLog(single, failing_blocks, t)} :
                            \E ev \in {build_evidence_from_log(raw.text)} :
                            \E scored \in {ScoredFrames(ev, max_candidates)} :
                            \E rk \in {filter_and_rank_frames(
                                           ev, SourceExists(by_filename, scored),
                                           max_candidates)} :
                            \E suspects \in {Suspects(by_filename, rk)} :
                              /\ artifacts' =
                                   Append(artifacts, [i |-> target_i, stdout |-> single.stdout,
                                                      stderr |-> single.stderr])
                              /\ lookups' = lookups + Len(scored) + Min2(Len(rk), MaxSuspects)
                              /\ IF \E k \in 1..Len(suspects) : suspects[k][1].raised
                                   THEN /\ pc' = "IndexError"
                                        /\ UNCHANGED <<detailed_failures, target_i>>
                                   ELSE /\ detailed_failures' =
                                             Append(detailed_failures,
                                                    DetailedFailure(t, raw, ev, rk, suspects))
                                        /\ target_i' = target_i + 1
                                        /\ pc' = pc
  /\ UNCHANGED <<resolveVars, traceVars, snippetVars, methodVars, inspect_failing_tests,
                 trigger_tests, failing_ids, failing_blocks, builds, returned>>

\* the report is built from detailed_failures once the loop is over
BuildReport ==
  /\ pc = "loop"
  /\ target_i >= Len(InspectionTargets(trigger_tests, failing_ids, inspect_failing_tests))
  /\ pc' = "done"
  /\ UNCHANGED <<resolveVars, traceVars, snippetVars, methodVars, inspectVars>>

\* another holder of the index calls candidates_for_filename
LookupCandidates ==
  /\ returned = <<>>
  /\ returned' = <<[file_name |-> Part.Foo_java, built |-> builds > 0, modified |-> FALSE,
                    list |-> CandidateList(by_filename, Part.Foo_java)]>>
  /\ UNCHANGED <<pc, resolveVars, traceVars, snippetVars, methodVars, inspect_failing_tests,
                 trigger_tests, failing_ids, failing_blocks, target_i, detailed_failures,
                 single_calls, artifacts, builds, lookups>>

\* that caller appends a path to the list it got: the index's own list
\* changes with it only if the two are one object
ModifyReturned ==
  /\ returned # <<>>
  /\ ~returned[1].modified
  /\ LET items == Append(returned[1].list.items, <<Part.slash, Part.Nope_java>>)
     IN  /\ returned' = <<[returned[1] EXCEPT !.modified = TRUE, !.list.items = items]>>
         /\ by_filename' =
              IF returned[1].list.shared /\ returned[1].file_name \in DOMAIN by_filename
                THEN [by_filename EXCEPT ![returned[1].file_name] = items]
                ELSE by_filename
  /\ UNCHANGED <<pc, files, src_roots, query, resolved, traceVars, snippetVars, methodVars,
                 inspect_failing_tests, trigger_tests, failing_ids, failing_blocks, target_i,
                 detailed_failures, single_calls, artifacts, builds, lookups>>

NextInspect ==
  \/ BuildIndex
  \/ RunTests
  \/ InspectTarget
  \/ BuildReport
  \/ LookupCandidates
  \/ ModifyReturned

SpecInspect == InitInspect /\ [][NextInspect]_vars

(***************************************************************************)
(* Claims about the parser (SpecParse).                                    *)
(***************************************************************************)
Parsed == pc = "evidence"

LogLines == SplitLines(test_log)

\* the lines that match the frame pattern, in encounter order
FramePatternLines == SelectSeq(LogLines, LAMBDA l : STACK_FRAME_RE(l).matched)

\* those of them whose file token ends in the source extension
JavaFrameLines ==
  SelectSeq(FramePatternLines,
            LAMBDA l : EndsWith(STACK_FRAME_RE(l).groups[2], Lit.dot_java))

\* C6: every StackFrame recorded by the parser has line_number >= 1.
C6_LineNumberAtLeastOne ==
  Parsed => \A i \in 1..Len(evidence.frames) : evidence.frames[i].line_number >= 1

ExceptionLineIdx ==
  {i \in 1..Len(LogLines) : EXCEPTION_LINE_RE(LogLines[i]).matched}

\* C8: the exception type and message are those of the first line matching
\* the exception pattern, whatever follows it; with no such line they are
\* "UnknownException" and "", and the frames are still the parsed frames.
C8_FirstExceptionLineOrUnknown ==
  Parsed =>
    /\ evidence.frames = parse_stack_frames(test_log)
    /\ evidence.raw_stack_text = test_log
    /\ IF ExceptionLineIdx = {}
         THEN /\ evidence.exception.exception_type = Lit.UnknownException
              /\ evidence.exception.message = <<>>
         ELSE LET m == EXCEPTION_LINE_RE(LogLines[MinOf(ExceptionLineIdx)])
              IN  /\ evidence.exception.exception_type = m.groups[1]
                  /\ evidence.exception.message = Strip(m.groups[2])

\* two exception lines of different types, the second one a "Caused by"
C8_Witness ==
  /\ Parsed
  /\ \E i, j \in ExceptionLineIdx :
       /\ i < j
       /\ i = MinOf(ExceptionLineIdx)
       /\ StartsWith(LogLines[j], Lit.caused_by)
       /\ EXCEPTION_LINE_RE(LogLines[j]).groups[1] # evidence.exception.exception_type
       /\ evidence.exception.message # <<>>

(***************************************************************************)
(* Claims about ranking (SpecRank) and scoring (SpecScore).                *)
(***************************************************************************)
Ranked == pc \in {"ranked", "chosen"}

\* the class name is in one of the namespaces java., javax., sun., jdk.,
\* org.junit., junit.
InLibraryNamespace(f) ==
  \/ StartsWith(f.class_name, Lit.java)
  \/ StartsWith(f.class_name, Lit.javax)
  \/ StartsWith(f.class_name, Lit.sun)
  \/ StartsWith(f.class_name, Lit.jdk)
  \/ StartsWith(f.class_name, Lit.org_junit)
  \/ StartsWith(f.class_name, Lit.junit)

EvidenceFrames == {evidence.frames[i] : i \in 1..Len(evidence.frames)}

RankedFrames == {ranked[i].frame : i \in 1..Len(ranked)}

\* C1 as stated: with max_candidates >= 1 and at least one frame outside the
\* standard-library namespaces in the evidence, no returned frame is in a
\* standard-library namespace.
C1_NoLibraryFrameIfSomeNonLibraryFrame ==
  (/\ Ranked
   /\ max_candidates >= 1
   /\ \E f \in EvidenceFrames : ~InLibraryNamespace(f))
  => \A f \in RankedFrames : ~InLibraryNamespace(f)

\* C1 amended: with max_candidates >= 1 and at least one frame in the
\* evidence that is neither in a standard-library namespace nor a test
\* frame, no returned frame is in a standard-library namespace.
C1_NoLibraryFrameIfSomeProjectFrame ==
  (/\ Ranked
   /\ max_candidates >= 1
   /\ \E f \in EvidenceFrames : ~InLibraryNamespace(f) /\ ~is_test_frame(f))
  => \A f \in RankedFrames : ~InLibraryNamespace(f)

\* a trace with a library frame and a project frame was ranked
C1_Witness ==
  /\ Ranked
  /\ max_candidates >= 1
  /\ \E f \in EvidenceFrames : InLibraryNamespace(f)
  /\ \E f \in EvidenceFrames : ~InLibraryNamespace(f) /\ ~is_test_frame(f)
  /\ ranked # <<>>

\* C2: when the evidence has at least one frame, all of its frames are
\* standard-library or test frames and max_candidates >= 1, the fallback
\* supplies the result: it is not empty, has at most 2 * max_candidates
\* entries, and its frames are among the first 2 * max_candidates frames of
\* the evidence.
C2_FallbackWhenAllFiltered ==
  (/\ Ranked
   /\ max_candidates >= 1
   /\ evidence.frames # <<>>
   /\ \A f \in EvidenceFrames : InLibraryNamespace(f) \/ is_test_frame(f))
  => /\ ranked # <<>>
     /\ Len(ranked) <= 2 * max_candidates
     /\ \A f \in RankedFrames :
          f \in EvidenceFrames /\ f.index_in_trace < 2 * max_candidates

\* a trace of library and test frames only, longer than 2 * max_candidates
C2_Witness ==
  /\ Ranked
  /\ max_candidates >= 1
  /\ Len(evidence.frames) > 2 * max_candidates
  /\ \E f \in EvidenceFrames : InLibraryNamespace(f)
  /\ \E f \in EvidenceFrames : is_test_frame(f) /\ ~InLibraryNamespace(f)
  /\ \A f \in EvidenceFrames : InLibraryNamespace(f) \/ is_test_frame(f)
  /\ ranked # <<>>

\* C3: the returned list has at most max_candidates entries, its scores do
\* not increase, entries of equal score are in ascending index_in_trace
\* order, and best_frame returns its first entry, or none for the empty list.
C3_RankedOrderAndBest ==
  /\ Ranked =>
       /\ Len(ranked) <= max_candidates
       /\ \A i, j \in 1..Len(ranked) :
            i < j =>
              /\ ranked[i].score2 >= ranked[j].score2
              /\ ranked[i].score2 = ranked[j].score2 =>
                   ranked[i].frame.index_in_trace < ranked[j].frame.index_in_trace
  /\ pc = "chosen" =>
       best = IF Len(ranked) = 0 THEN <<>> ELSE <<ranked[1]>>

\* a list that was cut to max_candidates and holds two entries of equal
\* score, with its best frame chosen
C3_Witness ==
  /\ pc = "chosen"
  /\ best # <<>>
  /\ Len(ranked) = max_candidates
  /\ Cardinality({f \in EvidenceFrames : Kept(f)}) > max_candidates
  /\ \E i, j \in 1..Len(ranked) : i < j /\ ranked[i].score2 = ranked[j].score2

\* the sum of the claim's terms, doubled
C9_Sum2(f, exception_type, exists) ==
  (IF 6 - f.index_in_trace > 0 THEN 2 * (6 - f.index_in_trace) ELSE 0)
  + (IF exists THEN 12 ELSE -4)
  + (IF is_standard_lib(f) THEN -16 ELSE 0)
  + (IF is_test_frame(f) THEN -12 ELSE 0)
  + (IF is_reflection_or_proxy(f) THEN -4 ELSE 0)
  + (IF is_utility_class(f) /\ exception_type \in ARGUMENT_EXCEPTIONS THEN -6 ELSE 0)
  + (IF Contains(f.class_name, Lit.dollar) THEN -1 ELSE 0)

\* C9: score_frame returns the sum of the independent terms; of the frames
\* of one trace that differ in index_in_trace only, a deeper one never
\* scores higher, and the one at index 0 scores strictly higher than the
\* one at index 5.
C9_ScoreIsSumAndFallsWithDepth ==
  pc = "score" =>
    /\ \A k \in 1..Len(scores) :
         /\ scores[k].frame = evidence.frames[k]
         /\ scores[k].score2 =
              C9_Sum2(evidence.frames[k], evidence.exception.exception_type,
                      evidence.frames[k].index_in_trace \in existing)
    /\ \A k, l \in 1..Len(scores) : k < l => scores[k].score2 >= scores[l].score2
    /\ Len(scores) >= 6 =>
         /\ scores[1].frame.index_in_trace = 0
         /\ scores[6].frame.index_in_trace = 5
         /\ scores[1].score2 > scores[6].score2

\* the frames at index 0 to 6 of a utility class were scored under an
\* exception that is not an argument exception
C9_Witness ==
  /\ pc = "score"
  /\ Len(scores) >= 7
  /\ is_utility_class(scores[1].frame)
  /\ evidence.exception.exception_type \notin ARGUMENT_EXCEPTIONS
  /\ scores[6].score2 = scores[7].score2 + 2
  /\ scores[1].score2 = scores[6].score2 + 10

(***************************************************************************)
(* Claims about the source index and the resolver (SpecResolve).           *)
(***************************************************************************)
\* resolve_source was called on the built index
ResolvedOnBuilt == query # <<>> /\ query[1].built

QueryClass == query[1].class_name

QueryFile == query[1].file_name

\* the distinct roots under which a source file of the queried name lies
RootsHoldingQueryFile ==
  {r \in {src_roots[i] : i \in 1..Len(src_roots)} :
     \E p \in files :
       IsUnder(p, r) /\ EndsWith(Name(p), Lit.dot_java) /\ Name(p) = QueryFile}

\* the source files of the queried name, once for every entry of the root
\* list they lie under
QueryFileOccurrences ==
  {<<i, p>> \in (1..Len(src_roots)) \X files :
     IsUnder(p, src_roots[i]) /\ EndsWith(Name(p), Lit.dot_java) /\ Name(p) = QueryFile}

IsUniqueMatch(r) ==
  r.conf100 = 90 /\ r.reason = <<"unique_filename_match", <<>> >>

\* C4 as stated: a file name present in exactly one of the roots resolves
\* with confidence exactly 0.9 (unique filename match), however many files of
\* that name the root holds and whether or not roots overlap or repeat.
C4_UniqueIfNameInOneRoot ==
  (ResolvedOnBuilt /\ Cardinality(RootsHoldingQueryFile) = 1)
  => resolved # <<>> /\ IsUniqueMatch(resolved[1])

\* C4 amended: a file name borne by exactly one source file under the roots,
\* that file lying under exactly one entry of the root list, resolves to
\* that file with confidence exactly 0.9 (unique filename match).
C4_UniqueIfOneOccurrence ==
  (ResolvedOnBuilt /\ Cardinality(QueryFileOccurrences) = 1)
  => /\ resolved # <<>>
     /\ IsUniqueMatch(resolved[1])
     /\ \E o \in QueryFileOccurrences : resolved[1].source_file = o[2]

\* the one file of the queried name was resolved in an index over two
\* roots that holds other files too
C4_Witness ==
  /\ ResolvedOnBuilt
  /\ Cardinality(QueryFileOccurrences) = 1
  /\ Len(src_roots) = 2
  /\ Cardinality(DOMAIN by_filename) = 2
  /\ resolved # <<>>

QueryCands == candidates_for_filename(by_filename, QueryFile)

QueryTokens == _package_path_tokens(QueryClass)

\* how many of the package tokens occur among the components of the path
TokenCount(p) ==
  Cardinality({i \in 1..Len(QueryTokens) :
                 QueryTokens[i] \in {p[j] : j \in 1..Len(p)}})

BestCount == MaxOf({TokenCount(QueryCands[i]) : i \in 1..Len(QueryCands)})

FirstBest == MinOf({i \in 1..Len(QueryCands) : TokenCount(QueryCands[i]) = BestCount})

FirstListed == IF line_number - window > 1 THEN line_number - window ELSE 1

LastListed ==
  IF line_number + window < Len(source_file)
    THEN line_number + window ELSE Len(source_file)

\* the row of the 1-based line j, marked when j is the requested line
ListedRow(j) ==
  (IF j = line_number THEN <<">", ">", " ">> ELSE <<" ", " ", " ">>)
    \o Format5d(j) \o <<":", " ">> \o source_file[j]

\* C10: the snippet lists exactly the lines max(1, L-w) .. min(n, L+w) in
\* order, reads no line index below 0 or at or after n, and marks line L and
\* no other line; for n = 100, L = 5, w = 8 the listing starts at line 1.
C10_SnippetIsTheClippedWindow ==
  pc # "file" =>
    /\ pc = "snippet"
    /\ \A k \in 1..Len(accessed) : 0 <= accessed[k] /\ accessed[k] < Len(source_file)
    /\ accessed = [k \in 1..Len(accessed) |-> FirstListed + k - 2]
    /\ Len(accessed) = (IF LastListed >= FirstListed THEN LastListed - FirstListed + 1 ELSE 0)
    /\ SplitLines(snippet) = [k \in 1..Len(accessed) |-> ListedRow(FirstListed + k - 1)]
    /\ (Len(source_file) = ExampleFileLines /\ line_number = 5 /\ window = DefaultWindow)
       => accessed[1] = 0

\* the snippet at line 5 of the long file with the default window
C10_Witness ==
  /\ pc = "snippet"
  /\ Len(source_file) = ExampleFileLines
  /\ line_number = 5
  /\ window = DefaultWindow
  /\ Len(accessed) = 13
  /\ SplitLines(snippet)[5] = ListedRow(5)

(***************************************************************************)
(* Claims about extract_enclosing_method (SpecMethod).                     *)
(***************************************************************************)
\* extract_enclosing_method has been called and has ended, either way
MethodCalled == pc \in {"method", "IndexError"}

\* no line the upward scan reaches is a declaration
NoDeclarationInScan ==
  LET scan == ScanUp(source_file, line_number, max_scan_up)
  IN  \A k \in 1..Len(scan) :
        IndexOk(source_file, scan[k]) => ~IsDeclaration(At(source_file, scan[k]))

\* C11: extract_enclosing_method returns a text without failing for every
\* file content and every line number (an empty file, a file cut off with
\* its braces unbalanced and a line number beyond the end of the file
\* included), and that text is the snippet of window 20 when the upward scan
\* finds no declaration within its bound.
C11_ReturnsTextForEveryFile ==
  MethodCalled =>
    /\ pc = "method"
    /\ ~enclosing.raised
    /\ NoDeclarationInScan =>
         enclosing.text = extract_code_snippet(source_file, line_number, FallbackWindow)

\* the brace depth after the lines start..j (0-based), and whether one of
\* them holds an opening brace
DepthAfter(lines, start, j) ==
  LET d[k \in (start - 1)..j] ==
        IF k < start THEN 0
        ELSE d[k - 1] + Count(lines[k + 1], "{") - Count(lines[k + 1], "}")
  IN  d[j]

OpenedBy(lines, start, j) == \E k \in start..j : Count(lines[k + 1], "{") > 0

\* the 0-based lines the downward scan from start covers
ScanDown(lines, start, down) == start..(Min2(Len(lines), start + down) - 1)

\* the lines of the scan at which the depth is back at zero (or below)
\* after a brace was opened, the start line itself among them
ClosingLines(lines, start, down) ==
  {j \in ScanDown(lines, start, down) :
     OpenedBy(lines, start, j) /\ DepthAfter(lines, start, j) <= 0}

\* where the claim has the span end: at the first closing line, else at the
\* last line of the scan
ClaimedEnd(lines, start, down) ==
  IF ClosingLines(lines, start, down) /= {} THEN MinOf(ClosingLines(lines, start, down))
  ELSE IF ScanDown(lines, start, down) /= {} THEN MaxOf(ScanDown(lines, start, down))
  ELSE start

\* C14: once a start line is found, the rendered span ends at the first
\* line, from the start line on and that line included, at which the brace
\* depth is back at zero after a brace was opened, or at the scan bound or
\* the end of the file when there is no such line; a routine whose braces
\* open and close on its declaration line gives a span of that one line.
C14_SpanEndsWhereDepthReturnsToZero ==
  (pc = "method" /\ enclosing.start_idx /= <<>>) =>
    enclosing.end_idx = <<ClaimedEnd(source_file, enclosing.start_idx[1], max_scan_down)>>

(***************************************************************************)
(* The confidence of a resolution (SpecResolve).                           *)
(***************************************************************************)
\* C15: every ResolvedSource has a confidence within [0.5, 0.9]: 0.9 for a
\* single candidate, 0.5 for several candidates and no package token, and
\* 0.6 + min(0.3, 0.03 * count) otherwise, count being the highest number of
\* tokens found in a candidate's path (0.6 when no token is found in any);
\* the fallback_first_match result of confidence 0.4 is never returned.
C15_ConfidenceByCase ==
  (query # <<>> /\ resolved # <<>>) =>
    /\ resolved[1].conf100 \in 50..90
    /\ resolved[1].reason[1] # "fallback_first_match"
    /\ QueryCands # <<>>
    /\ Len(QueryCands) = 1 => resolved[1].conf100 = 90
    /\ (Len(QueryCands) > 1 /\ QueryTokens = <<>>) => resolved[1].conf100 = 50
    /\ (Len(QueryCands) > 1 /\ QueryTokens # <<>>) =>
         /\ resolved[1].conf100 = 60 + Min2(30, 3 * BestCount)
         /\ BestCount = 0 => resolved[1].conf100 = 60

\* several candidates and package tokens of which none is found in any
\* candidate's path: the case the 0.4 fallback would need to be reachable
C15_Witness ==
  /\ query # <<>>
  /\ resolved # <<>>
  /\ Len(QueryCands) > 1
  /\ QueryTokens # <<>>
  /\ BestCount = 0
  /\ resolved[1].conf100 = 60

(***************************************************************************)
(* Claims about the inspection run (SpecInspect).                          *)
(***************************************************************************)
\* the run has ended by an exception
Aborted == pc \in {"TimeoutExpired", "IndexError"}

\* the records of the targets that went to test_single, in order
CommandRecords == SelectSeq(detailed_failures, LAMBDA d : "inspector_error" \notin DOMAIN d)

\* C12: when test_single runs out of time or exits non-zero the inspection
\* does not abort: the call is followed by a record for that target holding
\* a ranked list (possibly empty) and a best-frame selection (possibly
\* none), one record per call, the command not being called again.
C12_FailedCommandDoesNotAbort ==
  \A k \in 1..Len(single_calls) :
    (single_calls[k].timeout \/ single_calls[k].returncode # 0) =>
      /\ ~Aborted
      /\ k <= Len(CommandRecords)
      /\ CommandRecords[k].failing_test = single_calls[k].test_id
      /\ {"ranked_candidates", "selected_frame"} \subseteq DOMAIN CommandRecords[k]
      /\ Len(CommandRecords) = Len(single_calls)

\* the file names the model's index may hold or be asked for
FileNames == {Part.Foo_java, Part.Bar_java, Part.Nope_java}

\* C13: the index is built once, before the run asks it for the candidates
\* of any frame; once built, no step changes the mapping from file names to
\* paths: not the existence checks of the ranking, not the resolution of
\* the suspects, for any number of inspected failures, and not a caller
\* modifying a list candidates_for_filename returned; before build() every
\* lookup returns the empty list.
C13_IndexBuiltOnceNeverChanged ==
  /\ [](/\ builds <= 1
        /\ lookups > 0 => builds = 1
        /\ builds = 0 =>
             \A f \in FileNames : CandidateList(by_filename, f).items = <<>>
        /\ (returned # <<>> /\ ~returned[1].built /\ ~returned[1].modified) =>
             returned[1].list.items = <<>>)
  /\ [][builds >= 1 => by_filename' = by_filename]_vars

\* two failures were inspected, frames were resolved, and a caller has
\* modified the list it got for a file name the built index holds
C13_Witness ==
  /\ pc = "done"
  /\ builds = 1
  /\ lookups > 0
  /\ Len(CommandRecords) = 2
  /\ \E k \in 1..2 : CommandRecords[k].suspects # <<>>
  /\ returned # <<>>
  /\ returned[1].built
  /\ returned[1].modified
  /\ returned[1].file_name \in DOMAIN by_filename
  /\ Len(returned[1].list.items) = Len(by_filename[returned[1].file_name]) + 1

\* the list the targets are taken from, and the most that are processed
TargetSource == IF trigger_tests # <<>> THEN trigger_tests ELSE failing_ids

TargetLimit ==
  LET n == IF inspect_failing_tests > 0 THEN inspect_failing_tests ELSE 0
  IN  IF n < Len(TargetSource) THEN n ELSE Len(TargetSource)

\* an id that starts with "--- ", lacks "::" or contains whitespace
InvalidId(t) ==
  \/ (Len(t) >= 4 /\ SubSeq(t, 1, 4) = <<"-", "-", "-", " ">>)
  \/ ~\E k \in 1..(Len(t) - 1) : t[k] = ":" /\ t[k + 1] = ":"
  \/ \E k \in 1..Len(t) : t[k] \in SpaceChars

\* the record of an invalid target
IsErrorRecord(d) ==
  /\ "inspector_error" \in DOMAIN d
  /\ d.ranked_candidates = <<>>
  /\ d.selected_frame = <<>>
  /\ d.suspects = <<>>

\* C16: the loop processes at most inspect_failing_tests targets, in order,
\* taken from the trigger tests when there are any and else from the
\* failing-test ids; an invalid test id is never passed to test_single and
\* is recorded with an inspector_error, no ranked candidates, no selected
\* frame and no suspects, and the loop goes on with the next target.
C16_TargetsInOrderInvalidRecorded ==
  /\ Len(detailed_failures) <= TargetLimit
  /\ \A k \in 1..Len(detailed_failures) :
       /\ detailed_failures[k].failing_test = TargetSource[k]
       /\ InvalidId(TargetSource[k]) <=> IsErrorRecord(detailed_failures[k])
       /\ InvalidId(TargetSource[k]) <=> "inspector_error" \in DOMAIN detailed_failures[k]
  /\ \A k \in 1..Len(single_calls) : ~InvalidId(single_calls[k].test_id)
  /\ pc = "done" => Len(detailed_failures) = TargetLimit
  /\ (Aborted /\ single_calls # <<>>) =>
       /\ Len(detailed_failures) < TargetLimit
       /\ ~InvalidId(TargetSource[Len(detailed_failures) + 1])

\* two trigger tests and a failing id, a limit of two: the first target is
\* invalid and recorded as such, and the second has been run after it
C16_Witness ==
  /\ pc = "done"
  /\ inspect_failing_tests = 2
  /\ trigger_tests = <<Tid.spaced, Tid.valid>>
  /\ failing_ids # <<>>
  /\ Len(detailed_failures) = 2
  /\ IsErrorRecord(detailed_failures[1])
  /\ ~IsErrorRecord(detailed_failures[2])
  /\ [k \in 1..Len(single_calls) |-> single_calls[k].test_id] = <<Tid.valid>>

============================================================================
